---- MODULE Spec2Model ----
(***************************************************************************)
(* RecogLMDBDataset (mmocr/datasets/recog_lmdb_dataset.py): construction   *)
(* probes a read-only lmdb store for its record count and format, and      *)
(* load_data_list decodes every record into {img_path, instances}.         *)
(*                                                                         *)
(* Byte strings and text are sequences of one-character strings; every     *)
(* character of the model is ASCII except XFF, a byte that is not valid    *)
(* UTF-8.  An absent key reads as None.                                    *)
(***************************************************************************)
EXTENDS Integers, Sequences, FiniteSets, TLC

\* The largest record count a store of the model declares.
MaxN == 2

----------------------------------------------------------------------------
\* Text helpers

None == <<"None">>

XFF == "xFF"

Digits == <<"0", "1", "2", "3", "4", "5", "6", "7", "8", "9">>

IsDigit(c) == \E d \in 1..10 : Digits[d] = c

DigitVal(c) == (CHOOSE d \in 1..10 : Digits[d] = c) - 1

RECURSIVE Str(_)
\* str(i) for i >= 0: the decimal digits, no padding
Str(i) == IF i < 10 THEN <<Digits[i + 1]>>
          ELSE Str(i \div 10) \o <<Digits[(i % 10) + 1]>>

RECURSIVE Zeros(_)
Zeros(n) == IF n <= 0 THEN <<>> ELSE <<"0">> \o Zeros(n - 1)

PadWidth == 9

\* f'{i:09d}': zero-padded to at least nine digits
Fmt09d(i) == Zeros(PadWidth - Len(Str(i))) \o Str(i)

RECURSIVE IntOf(_)
IntOf(s) == IF Len(s) = 0 THEN 0
            ELSE 10 * IntOf(SubSeq(s, 1, Len(s) - 1)) + DigitVal(s[Len(s)])

\* bytes.decode('utf-8'): fails on a byte sequence that is not UTF-8
Utf8Decode(b) == IF \E k \in 1..Len(b) : b[k] = XFF
                 THEN [ok |-> FALSE, val |-> <<>>]
                 ELSE [ok |-> TRUE, val |-> b]

\* int(s) on decoded text: a non-empty run of digits, else ValueError
ParseInt(s) == IF Len(s) > 0 /\ \A k \in 1..Len(s) : IsDigit(s[k])
               THEN [ok |-> TRUE, val |-> IntOf(s)]
               ELSE [ok |-> FALSE, val |-> 0]

NUM_SAMPLES == <<"n", "u", "m", "-", "s", "a", "m", "p", "l", "e", "s">>

TOTAL_NUMBER == <<"t", "o", "t", "a", "l", "_", "n", "u", "m", "b", "e", "r">>

ImagePrefix == <<"i", "m", "a", "g", "e", "-">>

LabelPrefix == <<"l", "a", "b", "e", "l", "-">>

ImageKey(j) == ImagePrefix \o Fmt09d(j)

LabelKey(j) == LabelPrefix \o Fmt09d(j)

IndexKey(i) == Str(i)

\* txn.get(key): the stored value, or None
Get(st, key) == IF key \in DOMAIN st THEN st[key] ELSE None

----------------------------------------------------------------------------
\* Line handling of load_data_list and parse_data_info

RECURSIVE LStrip(_, _)
LStrip(s, chars) == IF Len(s) > 0 /\ s[1] \in chars THEN LStrip(Tail(s), chars) ELSE s

RECURSIVE RStrip(_, _)
RStrip(s, chars) == IF Len(s) > 0 /\ s[Len(s)] \in chars
                    THEN RStrip(SubSeq(s, 1, Len(s) - 1), chars)
                    ELSE s

\* str.strip(chars): drops the leading and trailing characters that are in chars
Strip(s, chars) == RStrip(LStrip(s, chars), chars)

\* the argument of line.strip('/n'): the two characters '/' and 'n'
StripArg == {"/", "n"}

RECURSIVE SplitAt(_, _, _)
\* str.split(sep) for a one-character sep: every occurrence separates, empty
\* parts are kept.  acc is the part being read.
SplitAt(s, sep, acc) ==
    IF Len(s) = 0 THEN <<acc>>
    ELSE IF s[1] = sep THEN <<acc>> \o SplitAt(Tail(s), sep, <<>>)
    ELSE SplitAt(Tail(s), sep, Append(acc, s[1]))

Split(s, sep) == SplitAt(s, sep, <<>>)

\* filename, text = line.strip('/n').split(' '): unpacking needs exactly two parts
SplitLine(line) ==
    LET parts == Split(Strip(line, StripArg), " ")
    IN  IF Len(parts) = 2
        THEN [ok |-> TRUE, filename |-> parts[1], text |-> parts[2]]
        ELSE [ok |-> FALSE, filename |-> <<>>, text |-> <<>>]

FILENAME == <<"f", "i", "l", "e", "n", "a", "m", "e">>

TEXT == <<"t", "e", "x", "t">>

\* json.dumps escapes of a string character (ensure_ascii=False)
EscapeChar(c) == CASE c = "\"" -> <<"\\", "\"">>
                   [] c = "\\" -> <<"\\", "\\">>
                   [] c = "\n" -> <<"\\", "n">>
                   [] c = "\t" -> <<"\\", "t">>
                   [] OTHER -> <<c>>

RECURSIVE Escape(_)
Escape(s) == IF Len(s) = 0 THEN <<>> ELSE EscapeChar(s[1]) \o Escape(Tail(s))

JsonString(s) == <<"\"">> \o Escape(s) \o <<"\"">>

\* json.dumps(dict(filename=filename, text=text), ensure_ascii=False)
JsonDumps(filename, text) ==
    <<"{">> \o JsonString(FILENAME) \o <<":", " ">> \o JsonString(filename)
            \o <<",", " ">> \o JsonString(TEXT) \o <<":", " ">> \o JsonString(text)
            \o <<"}">>

RECURSIVE ScanString(_, _, _)
\* Reads a JSON string body from position k (after the opening quote) to the
\* closing quote: next is the position after it, 0 when the text is malformed.
ScanString(s, k, acc) ==
    IF k > Len(s) THEN [next |-> 0, val |-> <<>>]
    ELSE IF s[k] = "\"" THEN [next |-> k + 1, val |-> acc]
    ELSE IF s[k] = "\\"
         THEN IF k + 1 > Len(s) THEN [next |-> 0, val |-> <<>>]
              ELSE IF s[k + 1] \in {"\"", "\\", "/"}
                   THEN ScanString(s, k + 2, Append(acc, s[k + 1]))
              ELSE IF s[k + 1] = "n" THEN ScanString(s, k + 2, Append(acc, "\n"))
              ELSE IF s[k + 1] = "t" THEN ScanString(s, k + 2, Append(acc, "\t"))
              ELSE [next |-> 0, val |-> <<>>]
    ELSE IF s[k] \in {"\n", "\t"} THEN [next |-> 0, val |-> <<>>]
    ELSE ScanString(s, k + 1, Append(acc, s[k]))

\* The position after lit when s holds lit at position k, else 0
Expect(s, k, lit) ==
    IF k > 0 /\ k + Len(lit) - 1 <= Len(s) /\ SubSeq(s, k, k + Len(lit) - 1) = lit
    THEN k + Len(lit)
    ELSE 0

\* Reads a quoted JSON string at position k
ReadString(s, k) ==
    IF Expect(s, k, <<"\"">>) = 0 THEN [next |-> 0, val |-> <<>>]
    ELSE ScanString(s, k + 1, <<>>)

\* json.loads on the object texts of this store format: an object of two string
\* members written with ': ' and ', '.  Any other text is malformed.
JsonLoads(s) ==
    LET k1 == ReadString(s, Expect(s, 1, <<"{">>))
        v1 == ReadString(s, Expect(s, k1.next, <<":", " ">>))
        k2 == ReadString(s, Expect(s, v1.next, <<",", " ">>))
        v2 == ReadString(s, Expect(s, k2.next, <<":", " ">>))
        end == Expect(s, v2.next, <<"}">>)
    IN  IF k1.next = 0 \/ v1.next = 0 \/ k2.next = 0 \/ v2.next = 0
           \/ end # Len(s) + 1
        THEN [ok |-> FALSE, keys |-> <<>>, vals |-> <<>>]
        ELSE [ok |-> TRUE, keys |-> <<k1.val, k2.val>>, vals |-> <<v1.val, v2.val>>]

\* obj[key] of a loaded object: the last member named key
Member(obj, key) ==
    IF obj.keys[2] = key THEN obj.vals[2] ELSE obj.vals[1]

HasMember(obj, key) == obj.keys[1] = key \/ obj.keys[2] = key

\* LineJsonParser.__call__: loads the line and picks the declared keys;
\* fails on a malformed line or a line that lacks a declared key
Parser(keys, line) ==
    LET obj == JsonLoads(line)
    IN  IF ~obj.ok THEN [ok |-> FALSE, error |-> "JSONDecodeError", obj |-> obj]
        ELSE IF \E k \in 1..Len(keys) : ~HasMember(obj, keys[k])
        THEN [ok |-> FALSE, error |-> "Exception", obj |-> obj]
        ELSE [ok |-> TRUE, error |-> "", obj |-> obj]

\* osp.join(a, b): b alone when it is absolute; a '/' is put between a
\* non-empty a and b unless a already ends with one
Join(a, b) ==
    IF Len(b) > 0 /\ b[1] = "/" THEN b
    ELSE IF Len(a) = 0 \/ a[Len(a)] = "/" THEN a \o b
    ELSE a \o <<"/">> \o b

\* parse_data_info: one annotation from one raw line
ParseDataInfo(keys, prefix, raw_anno_info) ==
    LET parsed == Parser(keys, raw_anno_info)
    IN  IF ~parsed.ok
        THEN [ok |-> FALSE, error |-> parsed.error, img_path |-> <<>>, text |-> <<>>]
        ELSE IF Len(keys) < 2
        THEN [ok |-> FALSE, error |-> "IndexError", img_path |-> <<>>, text |-> <<>>]
        ELSE [ok |-> TRUE, error |-> "",
              img_path |-> Join(prefix, Member(parsed.obj, keys[1])),
              text |-> Member(parsed.obj, keys[2])]

----------------------------------------------------------------------------
\* The stores and configurations the model is run on

Entry(key, val) == IF val = None THEN <<>> ELSE (key :> val)

\* values of num-samples / total_number: the counts 0..MaxN and a non-number
CountVals == {Str(n) : n \in 0..MaxN} \cup {<<"x">>}

\* values of the txt2lmdb index keys
DepVals == { <<"a", " ", "c">>,
             <<"n", "a", " ", "c", "n">>,
             <<"/", "a", " ", "c">>,
             <<"a", "c">>,
             <<"a", " ", "c", " ", "c">>,
             <<" ", "a">>,
             <<"a", " ", "c", "\n">>,
             <<"a", "\t", "c">> }

\* values of the recog2lmdb label keys: plain label text, label text that json
\* must escape, bytes that are not UTF-8, and whole annotation lines
LabelVals == { <<"c">>,
               <<"a", "\"", "\\">>,
               <<XFF>>,
               JsonDumps(<<"a">>, <<"c">>),
               JsonDumps(<<"/", "a">>, <<"c", "\"", "d">>) }

ImageBlob == <<"P", "N", "G">>

\* the key of record n: str(n) in the deprecated format, else label-%09d
RecordKey(deprecated, n) == IF deprecated THEN IndexKey(n) ELSE LabelKey(n)

\* the entries of the record keys lo, lo + 1, ..., one per element of vals
Records(vals, lo, deprecated) ==
    LET present == {k \in 1..Len(vals) : vals[k] # None}
    IN  [kk \in {RecordKey(deprecated, lo + k - 1) : k \in present} |->
            vals[CHOOSE k \in present : RecordKey(deprecated, lo + k - 1) = kk]]

Tuples(S) == [1..MaxN -> S]

ModernStores ==
    { Entry(NUM_SAMPLES, c) @@ Entry(TOTAL_NUMBER, t)
        @@ Entry(ImageKey(1), img) @@ Records(labels, 1, FALSE) :
        c \in CountVals, t \in {None, <<"1">>}, img \in {None, ImageBlob},
        labels \in Tuples(LabelVals \cup {None}) }

DeprecatedStores ==
    { Entry(TOTAL_NUMBER, c) @@ Entry(ImageKey(1), img) @@ Records(lines, 0, TRUE) :
        c \in CountVals, img \in {None, ImageBlob},
        lines \in Tuples(DepVals \cup {None}) }

\* stores with neither count key
UncountedStores ==
    { Entry(ImageKey(1), img) @@ Entry(LabelKey(1), l) @@ Entry(IndexKey(0), d) :
        img \in {None, ImageBlob}, l \in {None, <<"c">>}, d \in {None, <<"a", " ", "c">>} }

Stores == ModernStores \cup DeprecatedStores \cup UncountedStores

EXTRA == <<"e", "x", "t", "r", "a">>

ParserCfgs == { [type |-> "LineJsonParser", keys |-> <<FILENAME, TEXT>>],
                [type |-> "LineStrParser", keys |-> <<FILENAME, TEXT>>],
                [type |-> "LineJsonParser", keys |-> <<FILENAME>>],
                [type |-> "LineJsonParser", keys |-> <<FILENAME, TEXT, EXTRA>>] }

Prefixes == { <<>>, <<"p">>, <<"p", "/">> }

----------------------------------------------------------------------------
\* State

VARIABLES store, parser_cfg, data_prefix, pc, attrs, parser, total_number,
          deprecated_format, label_only, warnings, env_opens, txns, gets,
          i, data_list, result, error

vars == <<store, parser_cfg, data_prefix, pc, attrs, parser, total_number,
          deprecated_format, label_only, warnings, env_opens, txns, gets,
          i, data_list, result, error>>

inputs == <<store, parser_cfg, data_prefix>>

NoError == [class |-> "", at |-> ""]

Raise(class) == [class |-> class, at |-> pc]

Init ==
    /\ store \in Stores
    /\ parser_cfg \in ParserCfgs
    /\ data_prefix \in Prefixes
    /\ pc = "check_parser"
    /\ attrs = {}
    /\ parser = <<>>
    /\ total_number = 0
    /\ deprecated_format = FALSE
    /\ label_only = FALSE
    /\ warnings = 0
    /\ env_opens = 0
    /\ txns = <<>>
    /\ gets = <<>>
    /\ i = 0
    /\ data_list = <<>>
    /\ result = [returned |-> FALSE, data_list |-> <<>>]
    /\ error = NoError

\* env.begin(write=False)
Begin(phase) == Append(txns, [phase |-> phase, write |-> FALSE, state |-> "open"])

\* TxnExit that ends the transaction on the normal path only
TxnExit_LeavesOpenOnError(raised) == IF raised THEN "open" ELSE "committed"

\* leaving the with block of a transaction: abort on an exception, else commit
TxnExit(raised) == IF raised THEN "aborted" ELSE "committed"

EndTxn(raised) == [txns EXCEPT ![Len(txns)].state = TxnExit(raised)]

Fetched(phase, keys) == gets \o [k \in 1..Len(keys) |-> [phase |-> phase, key |-> keys[k]]]

----------------------------------------------------------------------------
\* __init__

\* CheckParserType without the type check
CheckParserType_AnyType ==
    /\ pc = "check_parser"
    /\ pc' = "build_parser"
    /\ UNCHANGED <<inputs, attrs, parser, total_number, deprecated_format, label_only,
                   warnings, env_opens, txns, gets, i, data_list, result, error>>

\* parser_cfg['type'] != 'LineJsonParser' raises ValueError
CheckParserType ==
    /\ pc = "check_parser"
    /\ IF parser_cfg.type # "LineJsonParser"
       THEN /\ error' = Raise("ValueError")
            /\ pc' = "failed"
       ELSE /\ pc' = "build_parser"
            /\ UNCHANGED error
    /\ UNCHANGED <<inputs, attrs, parser, total_number, deprecated_format, label_only,
                   warnings, env_opens, txns, gets, i, data_list, result>>

\* The parser accepts a configuration of exactly two keys
ParserContract(cfg) == Len(cfg.keys) = 2

\* self.parser = TASK_UTILS.build(parser_cfg); self.ann_file; self.deprecated_format
BuildParser ==
    /\ pc = "build_parser"
    /\ IF ~ParserContract(parser_cfg)
       THEN /\ error' = Raise("ValueError")
            /\ pc' = "failed"
            /\ UNCHANGED <<parser, attrs, deprecated_format>>
       ELSE /\ parser' = parser_cfg.keys
            /\ deprecated_format' = FALSE
            /\ attrs' = attrs \cup {"parser", "ann_file", "deprecated_format"}
            /\ pc' = "get_env"
            /\ UNCHANGED error
    /\ UNCHANGED <<inputs, total_number, label_only, warnings, env_opens, txns, gets,
                   i, data_list, result>>

\* env = self._get_env(); with env.begin(write=False) as txn
ProbeBegin ==
    /\ pc = "get_env"
    /\ env_opens' = env_opens + 1
    /\ txns' = Begin("probe")
    /\ pc' = "probe_count"
    /\ UNCHANGED <<inputs, attrs, parser, total_number, deprecated_format, label_only,
                   warnings, gets, i, data_list, result, error>>

\* Fetch that reads an absent key as the empty text
Fetch_AbsentIsEmpty(st, key) ==
    LET v == Get(st, key)
    IN  IF v = None THEN [ok |-> TRUE, error |-> "", text |-> <<>>]
        ELSE IF ~Utf8Decode(v).ok
        THEN [ok |-> FALSE, error |-> "UnicodeDecodeError", text |-> <<>>]
        ELSE [ok |-> TRUE, error |-> "", text |-> Utf8Decode(v).val]

\* txn.get(key).decode('utf-8'): AttributeError on an absent key (None has no
\* decode), UnicodeDecodeError on bytes that are not UTF-8
Fetch(st, key) ==
    LET v == Get(st, key)
    IN  IF v = None THEN [ok |-> FALSE, error |-> "AttributeError", text |-> <<>>]
        ELSE IF ~Utf8Decode(v).ok
        THEN [ok |-> FALSE, error |-> "UnicodeDecodeError", text |-> <<>>]
        ELSE [ok |-> TRUE, error |-> "", text |-> Utf8Decode(v).val]

\* FetchInt that reads an absent count as 0
FetchInt_AbsentIsZero(st, key) ==
    IF Get(st, key) = None THEN [ok |-> TRUE, error |-> "", val |-> 0]
    ELSE IF ~Utf8Decode(Get(st, key)).ok
    THEN [ok |-> FALSE, error |-> "UnicodeDecodeError", val |-> 0]
    ELSE IF ~ParseInt(Get(st, key)).ok THEN [ok |-> FALSE, error |-> "ValueError", val |-> 0]
    ELSE [ok |-> TRUE, error |-> "", val |-> ParseInt(Get(st, key)).val]

\* int(Fetch(key)): ValueError on text that is no number
FetchInt(st, key) ==
    LET f == Fetch(st, key)
    IN  IF ~f.ok THEN [ok |-> FALSE, error |-> f.error, val |-> 0]
        ELSE IF ~ParseInt(f.text).ok THEN [ok |-> FALSE, error |-> "ValueError", val |-> 0]
        ELSE [ok |-> TRUE, error |-> "", val |-> ParseInt(f.text).val]

\* ReadCount that warns before it reads num-samples
ReadCount_AlwaysWarns(st) ==
    LET first == FetchInt(st, NUM_SAMPLES)
        second == FetchInt(st, TOTAL_NUMBER)
    IN  IF first.error = "AttributeError"
        THEN [ok |-> second.ok, error |-> second.error, total_number |-> second.val,
              deprecated_format |-> TRUE, warned |-> 1,
              keys |-> <<NUM_SAMPLES, TOTAL_NUMBER>>]
        ELSE [ok |-> first.ok, error |-> first.error, total_number |-> first.val,
              deprecated_format |-> FALSE, warned |-> 1, keys |-> <<NUM_SAMPLES>>]

\* The try/except of __init__: num-samples, and on AttributeError a warning and
\* total_number.  keys are the keys read, warned the warnings emitted.
ReadCount(st) ==
    LET first == FetchInt(st, NUM_SAMPLES)
        second == FetchInt(st, TOTAL_NUMBER)
    IN  IF first.error = "AttributeError"
        THEN [ok |-> second.ok, error |-> second.error, total_number |-> second.val,
              deprecated_format |-> TRUE, warned |-> 1,
              keys |-> <<NUM_SAMPLES, TOTAL_NUMBER>>]
        ELSE [ok |-> first.ok, error |-> first.error, total_number |-> first.val,
              deprecated_format |-> FALSE, warned |-> 0, keys |-> <<NUM_SAMPLES>>]

ProbeCount ==
    /\ pc = "probe_count"
    /\ LET r == ReadCount(store)
       IN  /\ gets' = Fetched("probe", r.keys)
           /\ warnings' = warnings + r.warned
           /\ IF r.ok
              THEN /\ total_number' = r.total_number
                   /\ deprecated_format' = r.deprecated_format
                   /\ attrs' = attrs \cup {"total_number"}
                   /\ pc' = "probe_image"
                   /\ UNCHANGED <<error, txns>>
              ELSE /\ error' = Raise(r.error)
                   /\ txns' = EndTxn(TRUE)
                   /\ pc' = "failed"
                   /\ UNCHANGED <<total_number, deprecated_format, attrs>>
    /\ UNCHANGED <<inputs, parser, label_only, env_opens, i, data_list, result>>

\* LabelOnlyProbe with the test inverted
LabelOnlyProbe_Inverted(st) == Get(st, ImageKey(1)) # None

\* image_key = f'image-{1:09d}'; txn.get(image_key.encode('utf-8')) is None
LabelOnlyProbe(st) == Get(st, ImageKey(1)) = None

ProbeImage ==
    /\ pc = "probe_image"
    /\ gets' = Fetched("probe", <<ImageKey(1)>>)
    /\ label_only' = LabelOnlyProbe(store)
    /\ attrs' = attrs \cup {"label_only"}
    /\ pc' = "probe_exit"
    /\ UNCHANGED <<inputs, parser, total_number, deprecated_format, warnings, env_opens,
                   txns, i, data_list, result, error>>

\* the end of the with block: the probe transaction is committed
ProbeExit ==
    /\ pc = "probe_exit"
    /\ txns' = EndTxn(FALSE)
    /\ pc' = "super_init"
    /\ UNCHANGED <<inputs, attrs, parser, total_number, deprecated_format, label_only,
                   warnings, env_opens, gets, i, data_list, result, error>>

----------------------------------------------------------------------------
\* load_data_list, called by super().__init__

LoadBegin ==
    /\ pc = "super_init"
    /\ IF "env" \notin attrs
       THEN /\ env_opens' = env_opens + 1
            /\ attrs' = attrs \cup {"env"}
       ELSE UNCHANGED <<env_opens, attrs>>
    /\ data_list' = <<>>
    /\ txns' = Begin("decode")
    /\ i' = 0
    /\ pc' = "loop"
    /\ UNCHANGED <<inputs, parser, total_number, deprecated_format, label_only,
                   warnings, gets, result, error>>

\* deprecated format: str(i) holds 'filename text'
DeprecatedLine(st, idx) ==
    LET f == Fetch(st, IndexKey(idx))
        sp == SplitLine(f.text)
    IN  IF ~f.ok THEN [ok |-> FALSE, error |-> f.error, key |-> IndexKey(idx), line |-> <<>>]
        ELSE IF ~sp.ok
        THEN [ok |-> FALSE, error |-> "ValueError", key |-> IndexKey(idx), line |-> <<>>]
        ELSE [ok |-> TRUE, error |-> "", key |-> IndexKey(idx),
              line |-> JsonDumps(sp.filename, sp.text)]

\* LabelOnlyLine that makes the line of the image key and the value, as ImageLine does
LabelOnlyLine_Synthesized(st, idx) ==
    LET f == Fetch(st, LabelKey(idx + 1))
    IN  IF ~f.ok THEN [ok |-> FALSE, error |-> f.error, key |-> LabelKey(idx + 1), line |-> <<>>]
        ELSE [ok |-> TRUE, error |-> "", key |-> LabelKey(idx + 1),
              line |-> JsonDumps(ImageKey(idx + 1), f.text)]

\* label only: label-%09d of i + 1 holds the whole line
LabelOnlyLine(st, idx) ==
    LET f == Fetch(st, LabelKey(idx + 1))
    IN  [ok |-> f.ok, error |-> f.error, key |-> LabelKey(idx + 1), line |-> f.text]

\* ImageLine that names the image by the loop index before i = i + 1
ImageLine_ZeroBased(st, idx) ==
    LET f == Fetch(st, LabelKey(idx + 1))
    IN  IF ~f.ok THEN [ok |-> FALSE, error |-> f.error, key |-> LabelKey(idx + 1), line |-> <<>>]
        ELSE [ok |-> TRUE, error |-> "", key |-> LabelKey(idx + 1),
              line |-> JsonDumps(ImageKey(idx), f.text)]

\* label and image: the line is made of the image key and the label text
ImageLine(st, idx) ==
    LET f == Fetch(st, LabelKey(idx + 1))
    IN  IF ~f.ok THEN [ok |-> FALSE, error |-> f.error, key |-> LabelKey(idx + 1), line |-> <<>>]
        ELSE [ok |-> TRUE, error |-> "", key |-> LabelKey(idx + 1),
              line |-> JsonDumps(ImageKey(idx + 1), f.text)]

\* one iteration of the loop on the line r: data_list.append(parse_data_info(line)),
\* or the exception leaves the with block and load_data_list
Iterate(r) ==
    /\ gets' = Fetched("decode", <<r.key>>)
    /\ LET info == ParseDataInfo(parser, data_prefix, r.line)
           raised == IF ~r.ok THEN r.error ELSE info.error
       IN  IF raised # ""
           THEN /\ error' = Raise(raised)
                /\ txns' = EndTxn(TRUE)
                /\ pc' = "failed"
                /\ UNCHANGED <<i, data_list>>
           ELSE /\ data_list' = Append(data_list, [img_path |-> info.img_path,
                                                   instances |-> <<[text |-> info.text]>>])
                /\ i' = i + 1
                /\ UNCHANGED <<error, txns, pc>>
    /\ UNCHANGED <<inputs, attrs, parser, total_number, deprecated_format, label_only,
                   warnings, env_opens, result>>

StepDeprecated ==
    /\ pc = "loop" /\ i < total_number
    /\ deprecated_format
    /\ Iterate(DeprecatedLine(store, i))

StepLabelOnly ==
    /\ pc = "loop" /\ i < total_number
    /\ ~deprecated_format /\ label_only
    /\ Iterate(LabelOnlyLine(store, i))

StepImage ==
    /\ pc = "loop" /\ i < total_number
    /\ ~deprecated_format /\ ~label_only
    /\ Iterate(ImageLine(store, i))

\* return data_list, the decode transaction committed
LoadReturn ==
    /\ pc = "loop" /\ i >= total_number
    /\ txns' = EndTxn(FALSE)
    /\ result' = [returned |-> TRUE, data_list |-> data_list]
    /\ pc' = "done"
    /\ UNCHANGED <<inputs, attrs, parser, total_number, deprecated_format, label_only,
                   warnings, env_opens, gets, i, data_list, error>>

Next ==
    \/ CheckParserType
    \/ BuildParser
    \/ ProbeBegin
    \/ ProbeCount
    \/ ProbeImage
    \/ ProbeExit
    \/ LoadBegin
    \/ StepDeprecated
    \/ StepLabelOnly
    \/ StepImage
    \/ LoadReturn

Spec == Init /\ [][Next]_vars

----------------------------------------------------------------------------
\* Vocabulary of the claims

\* "<prefix>%09d" % j written out for one-digit j
Key9(prefix, j) == prefix \o <<"0", "0", "0", "0", "0", "0", "0", "0">> \o <<Digits[j + 1]>>

\* str(idx) written out for one-digit idx
BareKey(idx) == <<Digits[idx + 1]>>

IMAGE1 == <<"i", "m", "a", "g", "e", "-", "0", "0", "0", "0", "0", "0", "0", "0", "1">>

Has(key) == key \in DOMAIN store

Decodable(key) == Has(key) /\ \A k \in 1..Len(store[key]) : store[key][k] # XFF

\* the count a count key declares, -1 when its value is no number
Declared(key) ==
    IF Has(key) /\ store[key] \in {Str(n) : n \in 0..(MaxN + 1)}
    THEN CHOOSE n \in 0..(MaxN + 1) : Str(n) = store[key]
    ELSE -1

ConfigOk == parser_cfg.type = "LineJsonParser" /\ Len(parser_cfg.keys) = 2

ModernStore == Has(NUM_SAMPLES)

DeprecatedStore == ~Has(NUM_SAMPLES) /\ Has(TOTAL_NUMBER)

\* the class an absent key raises in decode, and the class a line that does not
\* split raises: the spec's StoreAccessError and FormatError
StoreAccessError == "AttributeError"

FormatError == "ValueError"

Whitespace == {" ", "\t", "\n"}

\* the number of whitespace-separated fields of s
FieldCount(s) ==
    Cardinality({k \in 1..Len(s) :
        s[k] \notin Whitespace /\ (k = 1 \/ s[k - 1] \in Whitespace)})

\* the split the claim describes: a trailing newline removed, then filename up
\* to the first whitespace run and text after it
ClaimedSplit(v) ==
    LET s == IF Len(v) > 0 /\ v[Len(v)] = "\n" THEN SubSeq(v, 1, Len(v) - 1) ELSE v
        ws == {k \in 1..Len(s) : s[k] \in Whitespace}
        first == CHOOSE k \in ws : \A m \in ws : k <= m
        after == {k \in first..Len(s) : s[k] \notin Whitespace}
        rest == IF after = {} THEN Len(s) + 1 ELSE CHOOSE k \in after : \A m \in after : k <= m
    IN  IF ws = {} THEN [ok |-> FALSE, filename |-> <<>>, text |-> <<>>]
        ELSE [ok |-> TRUE, filename |-> SubSeq(s, 1, first - 1),
              text |-> SubSeq(s, rest, Len(s))]

DecodeGets == {k \in 1..Len(gets) : gets[k].phase = "decode"}

ProbeGets == {k \in 1..Len(gets) : gets[k].phase = "probe"}

IsImageKey(key) == Len(key) >= Len(ImagePrefix) /\ SubSeq(key, 1, Len(ImagePrefix)) = ImagePrefix

\* construction got past the reading of the count keys
CountRead == pc \notin {"check_parser", "build_parser", "get_env", "probe_count"}
             /\ ~(pc = "failed" /\ error.at \in {"check_parser", "build_parser"})

----------------------------------------------------------------------------
\* Claims

\* C1: a store with num-samples = N and image-000000001 present, holding every
\* label key 1..N as UTF-8, decodes without failure, and the list returned has
\* exactly N records in index order, the j-th with
\* img_path = join(prefix, "image-%09d" % j) and one instance whose text is
\* the value at "label-%09d" % j.
C1_ModernImageRecords ==
    LET N == Declared(NUM_SAMPLES)
    IN  (ConfigOk /\ N >= 0 /\ Has(IMAGE1)
            /\ \A j \in 1..N : Decodable(Key9(LabelPrefix, j)))
        => /\ pc # "failed"
           /\ pc = "done" =>
                /\ result.returned
                /\ Len(result.data_list) = N
                /\ \A j \in 1..N :
                     /\ result.data_list[j].img_path = Join(data_prefix, Key9(ImagePrefix, j))
                     /\ Len(result.data_list[j].instances) = 1
                     /\ result.data_list[j].instances[1].text = store[Key9(LabelPrefix, j)]

C1_Witness ==
    /\ pc = "done" /\ ModernStore /\ Has(IMAGE1)
    /\ Len(result.data_list) >= 2
    /\ \E k \in 1..Len(store[Key9(LabelPrefix, 2)]) : store[Key9(LabelPrefix, 2)][k] = "\""

\* C2: when a store with total_number = N only is decoded, the i-th record's
\* filename and text are the two parts of the value at str(i) split on its
\* first whitespace run, nothing but a trailing newline removed from it.
C2_DeprecatedSplitOnFirstWhitespace ==
    (pc = "done" /\ DeprecatedStore)
    => /\ Len(result.data_list) = Declared(TOTAL_NUMBER)
       /\ \A idx \in 0..(Len(result.data_list) - 1) :
            LET sp == ClaimedSplit(store[BareKey(idx)])
            IN  /\ sp.ok
                /\ result.data_list[idx + 1].img_path = Join(data_prefix, sp.filename)
                /\ result.data_list[idx + 1].instances = <<[text |-> sp.text]>>

\* C3 as claimed: in a label-only store the text of the j-th record is the raw
\* value at "label-%09d" % j, and the scan fetches no image key.
C3_LabelOnlyTextIsRawValue ==
    (pc = "done" /\ ModernStore /\ ~Has(IMAGE1))
    => /\ \A j \in 1..Len(result.data_list) :
            result.data_list[j].instances[1].text = store[Key9(LabelPrefix, j)]
       /\ \A k \in DecodeGets : ~IsImageKey(gets[k].key)

\* C3 as amended: in a label-only store the value at "label-%09d" % j is the
\* whole annotation line; the j-th record's text is the text member of that
\* line and its img_path is join(prefix, its filename member); the scan
\* fetches no image key.
C3_LabelOnlyTextIsParsedField ==
    (ModernStore /\ ~Has(IMAGE1) /\ pc \in {"loop", "done", "failed"})
    => /\ \A j \in 1..Len(data_list) :
            \E f \in {<<"a">>, <<"/", "a">>}, t \in {<<"c">>, <<"c", "\"", "d">>} :
                /\ store[Key9(LabelPrefix, j)] = JsonDumps(f, t)
                /\ data_list[j].img_path = Join(data_prefix, f)
                /\ data_list[j].instances = <<[text |-> t]>>
       /\ \A k \in DecodeGets : ~IsImageKey(gets[k].key)
       /\ pc = "done" => result.data_list = data_list /\ Len(data_list) = Declared(NUM_SAMPLES)

C3_Witness ==
    /\ pc = "done" /\ ModernStore /\ ~Has(IMAGE1)
    /\ Len(result.data_list) >= 2
    /\ result.data_list[2].instances[1].text = <<"c", "\"", "d">>

\* C4: a store with num-samples present never raises the deprecation warning and
\* is not marked deprecated; a store with total_number only has raised exactly
\* one warning once its count key is read, whatever its count, and is marked
\* deprecated.
C4_WarningFollowsCountKey ==
    /\ ModernStore => /\ warnings = 0
                      /\ "total_number" \in attrs => ~deprecated_format
    /\ DeprecatedStore => /\ warnings = (IF CountRead THEN 1 ELSE 0)
                          /\ "total_number" \in attrs => deprecated_format

C4_Witness ==
    /\ pc = "done" /\ DeprecatedStore /\ warnings = 1
    /\ Len(result.data_list) >= 2

C6_NotTwoFieldsFails ==
    (pc = "done" /\ DeprecatedStore)
    => \A idx \in 0..(Declared(TOTAL_NUMBER) - 1) :
            Has(BareKey(idx)) /\ FieldCount(store[BareKey(idx)]) = 2

\* C7: when a record key below the declared count is absent, load_data_list
\* returns no list; the scan fails at the absent key with the absent-key error,
\* whatever number of records it has decoded by then.
C7_TruncatedStoreReturnsNothing ==
    LET N == IF ModernStore THEN Declared(NUM_SAMPLES) ELSE Declared(TOTAL_NUMBER)
        expected == IF ModernStore THEN {Key9(LabelPrefix, j) : j \in 1..N}
                    ELSE {BareKey(idx) : idx \in 0..(N - 1)}
    IN  /\ (\E key \in expected : ~Has(key)) => pc # "done" /\ ~result.returned
        /\ (pc = "failed" /\ error.at = "loop" /\ ~Has(gets[Len(gets)].key))
           => /\ error.class = StoreAccessError
              /\ gets[Len(gets)].key \in expected
              /\ ~result.returned /\ result.data_list = <<>>

C7_Witness ==
    /\ pc = "failed" /\ error.at = "loop" /\ ~Has(gets[Len(gets)].key)
    /\ Len(data_list) >= 1

C9_ProbeOnlyWhenModern ==
    (deprecated_format /\ "total_number" \in attrs)
    => /\ \A k \in ProbeGets : gets[k].key # IMAGE1
       /\ "label_only" \in attrs => ~label_only

\* C9 as amended: every store whose count was read, deprecated or not, is
\* probed once for image-000000001 in the probe transaction, and label_only is
\* true exactly when that key is absent.
C9_ProbeIssuedForEveryFormat ==
    (pc \in {"probe_exit", "super_init", "loop", "done"}
        \/ (pc = "failed" /\ error.at = "loop"))
    => /\ Cardinality({k \in ProbeGets : gets[k].key = IMAGE1}) = 1
       /\ "label_only" \in attrs
       /\ label_only = ~Has(IMAGE1)

C9_Witness ==
    /\ pc = "done" /\ deprecated_format /\ label_only
    /\ Len(result.data_list) >= 1

\* C10: at most two transactions are begun, the probe's and then the decode's,
\* both read-only; at most one is open at a time, the probe's is ended before
\* the decode's begins, and none is open once construction or load_data_list
\* has returned or failed (aborted on failure, committed otherwise).
C10_TransactionsEndedAndSeparate ==
    /\ Len(txns) <= 2
    /\ \A k \in 1..Len(txns) : ~txns[k].write
    /\ Cardinality({k \in 1..Len(txns) : txns[k].state = "open"}) <= 1
    /\ Len(txns) >= 1 => txns[1].phase = "probe"
    /\ Len(txns) = 2 => txns[1].state = "committed" /\ txns[2].phase = "decode"
    /\ pc \in {"done", "failed", "super_init"} =>
            \A k \in 1..Len(txns) : txns[k].state # "open"
    /\ (pc = "failed" /\ Len(txns) >= 1) => txns[Len(txns)].state = "aborted"
    /\ pc = "done" => Len(txns) = 2 /\ txns[2].state = "committed"

C10_Witness ==
    /\ pc = "failed" /\ error.at = "loop" /\ Len(data_list) >= 1
    /\ Len(txns) = 2 /\ txns[2].state = "aborted"


====
